---- MODULE Spec2Model ----
(***************************************************************************)
(* Command / session layer of the GB28181 signalling stack                 *)
(* (session/src/gb/handler/cmd.rs): the request-response correlation of    *)
(* CmdQuery (lazy queries) and CmdStream (INVITE negotiation and the       *)
(* bounded-wait in-dialog commands), together with the Correlation Table   *)
(* (EventSession), the transport hand-off (RequestOutput) and the timer    *)
(* they rely on.                                                           *)
(***************************************************************************)
EXTENDS Integers, Sequences, FiniteSets, TLC

(***************************************************************************)
(* Bounds of the model and constants of the program.                       *)
(***************************************************************************)
\* number of responses the transport injects through fulfill
MaxFulfill == 2
\* last instant of the clock
MaxTime == 3
\* mpsc::channel(10)
ChannelCap == 10
\* Duration::from_secs(2)
LazyDelay == 2
\* u8::MAX, the largest payload type key.parse::<u8>() accepts
U8Max == 255

Procs == {"p1", "p2"}
Ids == {"d1", "d2"}
NoId == "none"
\* identifiers are interchangeable: the one given to p1 is called d1, and the
\* other task gets the same one or another one
IdsOf(p) == IF p = "p1" THEN {"d1"} ELSE Ids

\* download_invite, play_back_invite and play_live_invite all run invite_stream
InviteCmds == {"invite_stream"}
BoundedCmds == {"play_speed", "play_seek", "play_bye"}
LazyCmds == {"lazy_query_device_info", "lazy_query_device_catalog",
             "lazy_subscribe_device_catalog"}
\* CmdQuery::query_*, subscribe_device_catalog, CmdControl::control_ptz, snapshot_image
ForgetCmds == {"query_preset", "query_device_info", "query_device_catalog",
               "subscribe_device_catalog", "control_ptz", "snapshot_image"}
AckCmds == {"invite_ack"}
Cmds == InviteCmds \cup BoundedCmds \cup LazyCmds \cup ForgetCmds \cup AckCmds
NoCmd == "none"

(***************************************************************************)
(* Text: a string is a sequence of one-character strings.                  *)
(***************************************************************************)
IsSpace(c) == c \in {" ", "\t"}

Digits == <<"0", "1", "2", "3", "4", "5", "6", "7", "8", "9">>

IsDigit(c) == \E i \in 1..10 : Digits[i] = c

DigitVal(c) == (CHOOSE i \in 1..10 : Digits[i] = c) - 1

\* str::trim
Trim(s) ==
    LET keep == {i \in 1..Len(s) : ~IsSpace(s[i])}
    IN  IF keep = {} THEN <<>>
        ELSE LET lo == CHOOSE i \in keep : \A j \in keep : i <= j
                 hi == CHOOSE i \in keep : \A j \in keep : j <= i
             IN  SubSeq(s, lo, hi)

\* ReplaceBlank that leaves runs of whitespace as they are
ReplaceBlank_Kept(s) == s

\* Regex::new(r"\s+").replace_all(s, " ")
RECURSIVE ReplaceBlank(_)
ReplaceBlank(s) ==
    IF s = <<>> THEN <<>>
    ELSE IF IsSpace(s[1])
         THEN IF Len(s) > 1 /\ IsSpace(s[2])
              THEN ReplaceBlank(Tail(s))
              ELSE <<" ">> \o ReplaceBlank(Tail(s))
         ELSE <<s[1]>> \o ReplaceBlank(Tail(s))

\* position of the first occurrence of character c in s, 0 when there is none
Find(s, c) ==
    LET at == {i \in 1..Len(s) : s[i] = c}
    IN  IF at = {} THEN 0 ELSE CHOOSE i \in at : \A j \in at : i <= j

\* value of a sequence of digits
RECURSIVE DecVal(_)
DecVal(s) == IF s = <<>> THEN 0 ELSE 10 * DecVal(SubSeq(s, 1, Len(s) - 1)) + DigitVal(s[Len(s)])

\* key.parse::<u8>(): an optional '+', then one or more digits, at most 255
ParseU8(key) ==
    LET ds == IF key # <<>> /\ key[1] = "+" THEN Tail(key) ELSE key
        wellFormed == ds # <<>> /\ \A i \in 1..Len(ds) : IsDigit(ds[i])
    IN  IF wellFormed /\ DecVal(ds) <= U8Max
        THEN [ok |-> TRUE, val |-> DecVal(ds)]
        ELSE [ok |-> FALSE, val |-> 0]

Lower == <<"a", "b", "c", "h", "p", "s">>
Upper == <<"A", "B", "C", "H", "P", "S">>

UpperChar(c) == IF \E i \in 1..Len(Lower) : Lower[i] = c
                THEN Upper[CHOOSE i \in 1..Len(Lower) : Lower[i] = c]
                ELSE c

\* str::to_uppercase
ToUppercase(s) == [i \in 1..Len(s) |-> UpperChar(s[i])]

(***************************************************************************)
(* Responses.  A response carries a status code, a body (a session         *)
(* description: whether sdp_types::Session::parse accepts it, and the      *)
(* attributes of its media sections) and the tags of its From / To         *)
(* headers ("" when the header has no tag).                                *)
(***************************************************************************)
NoTag == ""

Attr(name, v) == [attribute |-> name, has_value |-> TRUE, value |-> v]
Flag(name) == [attribute |-> name, has_value |-> FALSE, value |-> <<>>]

\* "96 PS/90000"
Rtpmap96 == <<"9", "6", " ", "P", "S", "/", "9", "0", "0", "0", "0">>
\* "97 h264/90000"
Rtpmap97 == <<"9", "7", " ", "h", "2", "6", "4", "/", "9", "0", "0", "0", "0">>
\* "x6 PS/90000", a payload type that is no number
RtpmapBad == <<"x", "6", " ", "P", "S", "/", "9", "0", "0", "0", "0">>

\* "97 H264/90000"
Rtpmap97Upper == <<"9", "7", " ", "H", "2", "6", "4", "/", "9", "0", "0", "0", "0">>
\* " 96   PS/90000 ", the irregular whitespace of test_str_blank
RtpmapBlank == <<" ", "9", "6", " ", " ", " ", "P", "S", "/", "9", "0", "0", "0", "0", " ">>
\* "96 h264", payload type 96 again, no '/' suffix
Rtpmap96Again == <<"9", "6", " ", "h", "2", "6", "4">>
\* "x6", a payload type that is no number and no codec after it
RtpmapNoCodec == <<"x", "6">>

EmptyBody == [sdp_ok |-> TRUE, medias |-> <<>>]
GoodBody == [sdp_ok |-> TRUE,
             medias |-> << <<Attr("rtpmap", Rtpmap96), Flag("sendonly")>>,
                           <<Attr("rtpmap", Rtpmap97)>> >>]
BadPtBody == [sdp_ok |-> TRUE, medias |-> << <<Attr("rtpmap", RtpmapBad)>> >>]
NoSdpBody == [sdp_ok |-> FALSE, medias |-> <<>>]

Resp(code, body, ft, tt) == [code |-> code, body |-> body, from_tag |-> ft, to_tag |-> tt]

NoRes == Resp(0, EmptyBody, NoTag, NoTag)

Responses ==
    { Resp(183, EmptyBody, "ft", NoTag),
      Resp(200, GoodBody, "ft", "tt"),
      Resp(200, BadPtBody, "ft", "tt"),
      Resp(200, GoodBody, "ft", NoTag),
      Resp(200, NoSdpBody, "ft", "tt"),
      Resp(204, EmptyBody, "ft", "tt"),
      Resp(486, EmptyBody, "ft", "tt") }

\* the responses that differ in what a bounded-wait command reads: the status
StatusResponses ==
    { Resp(183, EmptyBody, "ft", NoTag),
      Resp(200, EmptyBody, "ft", "tt"),
      Resp(486, EmptyBody, "ft", "tt") }

\* the attributes a media section of the session description is made of
AttrChoices ==
    { Attr("rtpmap", Rtpmap96), Attr("rtpmap", Rtpmap97Upper), Attr("rtpmap", RtpmapBlank),
      Attr("rtpmap", Rtpmap96Again), Attr("rtpmap", RtpmapBad), Attr("rtpmap", RtpmapNoCodec),
      Attr("fmtp", Rtpmap96Again) }

\* longest attribute list of a media section
MaxAttrs == 2

AttrLists == UNION {[1..n -> AttrChoices] : n \in 1..MaxAttrs}

\* 200 responses over every session description of one media section, and
\* the two-section one
ParseResponses ==
    {Resp(200, [sdp_ok |-> TRUE, medias |-> <<attrs>>], "ft", "tt") : attrs \in AttrLists}
        \cup {Resp(200, GoodBody, "ft", "tt"), Resp(200, GoodBody, NoTag, "tt")}

\* rsip StatusCode reason phrases
ReasonPhrase(code) ==
    CASE code = 183 -> "Session Progress"
      [] code = 200 -> "OK"
      [] code = 204 -> "No Notification"
      [] code = 486 -> "Busy Here"
      [] OTHER -> "Other"

\* res.status_code.to_string(): the code in decimal, then the reason phrase
StatusText(code) == <<ToString(code), ReasonPhrase(code)>>

(***************************************************************************)
(* Envelopes on a waiter's channel: (Some(res), _) or (None, _); recv()    *)
(* yields None once the channel is closed and drained.                     *)
(***************************************************************************)
SomeRes(r) == [kind |-> "res", res |-> r]
Absence == [kind |-> "absence", res |-> NoRes]
Closed == [kind |-> "closed", res |-> NoRes]

(***************************************************************************)
(* Session-description extraction of invite_stream.                        *)
(***************************************************************************)
EmptyMap == <<>>

\* HashMap::insert
Insert(m, k, v) == [x \in (DOMAIN m) \cup {k} |-> IF x = k THEN v ELSE m[x]]

\* session.medias, media.attributes in iteration order
RECURSIVE Flatten(_)
Flatten(medias) == IF medias = <<>> THEN <<>> ELSE Head(medias) \o Flatten(Tail(medias))

RECURSIVE MediaMap(_, _)
MediaMap(attrs, acc) ==
    IF attrs = <<>> THEN [ok |-> TRUE, map |-> acc]
    ELSE LET a == Head(attrs)
         IN  IF a.attribute = "rtpmap" /\ a.has_value
             THEN LET info == ReplaceBlank(Trim(a.value))
                      sp == Find(info, " ")
                  IN  IF sp = 0 THEN MediaMap(Tail(attrs), acc)
                      ELSE LET key == SubSeq(info, 1, sp - 1)
                               val == SubSeq(info, sp + 1, Len(info))
                               tp == ParseU8(key)
                               sl == Find(val, "/")
                               i == IF sl = 0 THEN Len(val) ELSE sl - 1
                           IN  IF ~tp.ok THEN [ok |-> FALSE, map |-> acc]
                               ELSE MediaMap(Tail(attrs),
                                             Insert(acc, tp.val, ToUppercase(SubSeq(val, 1, i))))
             ELSE MediaMap(Tail(attrs), acc)

\* the payload-type map of each response the transport can deliver
SessionMap == [r \in Responses \cup StatusResponses \cup ParseResponses |->
                  MediaMap(Flatten(r.body.medias), EmptyMap)]

\* ResponseBuilder::get_tag_by_header_from / get_tag_by_header_to
get_tag_by_header_from(res) == [ok |-> res.from_tag # NoTag, tag |-> res.from_tag]
get_tag_by_header_to(res) == [ok |-> res.to_tag # NoTag, tag |-> res.to_tag]

(***************************************************************************)
(* Results returned to the caller.                                         *)
(***************************************************************************)
Result(tag, class, code, msg, res, map, ft, tt) ==
    [tag |-> tag, class |-> class, code |-> code, msg |-> msg,
     res |-> res, media_map |-> map, from_tag |-> ft, to_tag |-> tt]

NoResult == Result("None", "", 0, <<>>, NoRes, EmptyMap, NoTag, NoTag)
\* Ok(())
OkUnit == Result("Ok", "", 0, <<>>, NoRes, EmptyMap, NoTag, NoTag)
\* Ok((res, media_map, from_tag, to_tag))
OkSession(res, map, ft, tt) == Result("Ok", "session", 0, <<>>, res, map, ft, tt)
\* Ok((call_id, seq))
OkAck(call_id, seq) == Result("Ok", "ack", seq, <<call_id>>, NoRes, EmptyMap, NoTag, NoTag)
\* GlobalError::new_biz_error(code, msg, ..)
BizError(code, msg) == Result("Err", "biz", code, msg, NoRes, EmptyMap, NoTag, NoTag)
\* an error propagated by `?` from a collaborator
SysError(what) == Result("Err", what, 0, <<>>, NoRes, EmptyMap, NoTag, NoTag)
\* .unwrap() on an Err: the task panics, nothing is returned
Panic == Result("Panic", "", 0, <<>>, NoRes, EmptyMap, NoTag, NoTag)

TimeoutMsg(cmd) ==
    CASE cmd = "play_speed" -> <<"speed", "no response or timeout">>
      [] cmd = "play_seek" -> <<"seek", "no response or timeout">>
      [] cmd = "play_bye" -> <<"bye", "no response or timeout">>
      [] OTHER -> <<"invite", "response timeout">>

(***************************************************************************)
(* State.                                                                  *)
(*   pc        position of each caller's task                              *)
(*   cmd       the command the task runs                                   *)
(*   ident     the Dialog Identifier the Builder gave it                   *)
(*   chan      the queue of the task's mpsc channel (rx side)              *)
(*   delivered what has been put on the task's channel so far, in order      *)
(*   consumed  what rx.recv() has returned to the task so far              *)
(*   table     the Correlation Table: Dialog Identifier -> Pending Waiter  *)
(*   outcome   the value the task returns (final once pc = "done")         *)
(*   now       the clock                                                   *)
(*   calledAt  the instant the command was called                          *)
(*   sent      the instants the task's request was handed to the transport *)
(*   nFulfill  number of responses the transport has injected              *)
(***************************************************************************)
VARIABLES pc, cmd, ident, chan, delivered, consumed, table, outcome, now, calledAt, sent, nFulfill

vars == <<pc, cmd, ident, chan, delivered, consumed, table, outcome, now, calledAt, sent, nFulfill>>

Init ==
    /\ pc = [p \in Procs |-> "idle"]
    /\ cmd = [p \in Procs |-> NoCmd]
    /\ ident = [p \in Procs |-> NoId]
    /\ chan = [p \in Procs |-> <<>>]
    /\ delivered = [p \in Procs |-> <<>>]
    /\ consumed = [p \in Procs |-> <<>>]
    /\ table = EmptyMap
    /\ outcome = [p \in Procs |-> NoResult]
    /\ now = 0
    /\ calledAt = [p \in Procs |-> 0]
    /\ sent = [p \in Procs |-> <<>>]
    /\ nFulfill = 0

(***************************************************************************)
(* Correlation Table (EventSession) and transport (RequestOutput).         *)
(***************************************************************************)
\* Container::build_res(Some(tx)): a synchronous waiter holding the sender
ResWaiter(p) == [kind |-> "res", owner |-> p, fire_at |-> 0, expired |-> FALSE]
\* Container::build_actor(ident, msg, None): a deferred action
ActorWaiter(p, when) == [kind |-> "actor", owner |-> p, fire_at |-> when, expired |-> FALSE]

\* the registration of a request sent without a response channel
NoneWaiter(p) == [kind |-> "none", owner |-> p, fire_at |-> 0, expired |-> FALSE]

Registered(id) == id \in DOMAIN table

\* EventSession::listen_event on a free identifier
listen_event(t, id, waiter) == Insert(t, id, waiter)

\* EventSession::remove_event: unconditional and idempotent
remove_event(t, id) == [x \in (DOMAIN t) \ {id} |-> t[x]]

\* the sender of p's channel lives in the table; without it the channel is closed
ChannelClosed(p) == ~\E id \in DOMAIN table : table[id].kind = "res" /\ table[id].owner = p

\* rx.recv().await can return
CanRecv(p) == chan[p] # <<>> \/ ChannelClosed(p)

\* what rx.recv().await returns
RecvValue(p) == IF chan[p] # <<>> THEN Head(chan[p]) ELSE Closed

Return(p, r) ==
    /\ pc' = [pc EXCEPT ![p] = "done"]
    /\ outcome' = [outcome EXCEPT ![p] = r]

\* leave the receive loop with result r; remove_event comes next
Leave(p, r) ==
    /\ pc' = [pc EXCEPT ![p] = "cleanup"]
    /\ outcome' = [outcome EXCEPT ![p] = r]

\* RequestBuilder::<command>(..).await?
build(p, c, id, ok) ==
    /\ pc[p] = "idle"
    /\ cmd' = [cmd EXCEPT ![p] = c]
    /\ calledAt' = [calledAt EXCEPT ![p] = now]
    /\ IF ok
       THEN /\ ident' = [ident EXCEPT ![p] = id]
            /\ pc' = [pc EXCEPT ![p] = "built"]
            /\ outcome' = outcome
       ELSE /\ ident' = ident
            /\ Return(p, SysError("build"))
    /\ UNCHANGED <<chan, delivered, consumed, table, now, sent, nFulfill>>

\* RequestOutput::new(ident, msg, Some(tx)).do_send(): register the waiter,
\* then hand the request to the transport
do_send(p, accepted) ==
    LET id == ident[p]
    IN  IF Registered(id)
        THEN /\ Return(p, SysError("conflict"))
             /\ UNCHANGED <<table, sent>>
        ELSE IF accepted
        THEN /\ table' = listen_event(table, id, ResWaiter(p))
             /\ sent' = [sent EXCEPT ![p] = Append(@, now)]
             /\ pc' = [pc EXCEPT ![p] = "waiting"]
             /\ outcome' = outcome
        ELSE /\ table' = listen_event(table, id, ResWaiter(p))
             /\ Return(p, SysError("transport"))
             /\ sent' = sent

\* RequestOutput::new(ident, msg, None).do_send(): register without a
\* channel, hand the request to the transport, return
do_send_none(p, accepted) ==
    LET id == ident[p]
    IN  IF Registered(id)
        THEN /\ Return(p, SysError("conflict"))
             /\ UNCHANGED <<table, sent>>
        ELSE IF accepted
        THEN /\ table' = listen_event(table, id, NoneWaiter(p))
             /\ sent' = [sent EXCEPT ![p] = Append(@, now)]
             /\ Return(p, OkUnit)
        ELSE /\ table' = listen_event(table, id, NoneWaiter(p))
             /\ Return(p, SysError("transport"))
             /\ sent' = sent

(***************************************************************************)
(* CmdStream::invite_stream                                                *)
(***************************************************************************)
\* the `if code == 200 { .. }` arm: parse the session description, read the
\* tags, and only then remove_event and return the descriptor
InviteAccept(res) ==
    IF ~res.body.sdp_ok
    THEN [to |-> "done", r |-> Panic]
    ELSE LET mm == SessionMap[res]
             ft == get_tag_by_header_from(res)
             tt == get_tag_by_header_to(res)
         IN  IF ~mm.ok THEN [to |-> "done", r |-> SysError("parse")]
             ELSE IF ~ft.ok \/ ~tt.ok
             THEN [to |-> "done", r |-> SysError("tag")]
             ELSE [to |-> "cleanup", r |-> OkSession(res, mm.map, ft.tag, tt.tag)]

\* InviteOnRecv with the rejection test written `code >= 100`
InviteOnRecv_ProvisionalRejects(env) ==
    IF env.kind # "res"
    THEN [to |-> "cleanup", r |-> BizError(1000, TimeoutMsg("invite_stream"))]
    ELSE IF env.res.code >= 100
    THEN [to |-> "cleanup", r |-> BizError(3000, StatusText(env.res.code))]
    ELSE IF env.res.code = 200 THEN InviteAccept(env.res)
    ELSE [to |-> "waiting", r |-> NoResult]

\* InviteOnRecv with the rejection carrying the timeout text, not the status
InviteOnRecv_RejectNoText(env) ==
    IF env.kind # "res"
    THEN [to |-> "cleanup", r |-> BizError(1000, TimeoutMsg("invite_stream"))]
    ELSE IF env.res.code >= 300
    THEN [to |-> "cleanup", r |-> BizError(3000, TimeoutMsg("invite_stream"))]
    ELSE IF env.res.code = 200 THEN InviteAccept(env.res)
    ELSE [to |-> "waiting", r |-> NoResult]

\* InviteOnRecv with the loop written `while let Some(..)`: an absence
\* envelope is skipped like a provisional response
InviteOnRecv_AbsenceIgnored(env) ==
    IF env.kind = "closed"
    THEN [to |-> "cleanup", r |-> BizError(1000, TimeoutMsg("invite_stream"))]
    ELSE IF env.kind # "res" THEN [to |-> "waiting", r |-> NoResult]
    ELSE IF env.res.code >= 300
    THEN [to |-> "cleanup", r |-> BizError(3000, StatusText(env.res.code))]
    ELSE IF env.res.code = 200 THEN InviteAccept(env.res)
    ELSE [to |-> "waiting", r |-> NoResult]

\* InviteOnRecv with the success test written `code >= 200 && code < 300`
InviteOnRecv_Any2xxAccepts(env) ==
    IF env.kind # "res"
    THEN [to |-> "cleanup", r |-> BizError(1000, TimeoutMsg("invite_stream"))]
    ELSE IF env.res.code >= 300
    THEN [to |-> "cleanup", r |-> BizError(3000, StatusText(env.res.code))]
    ELSE IF env.res.code >= 200 THEN InviteAccept(env.res)
    ELSE [to |-> "waiting", r |-> NoResult]

\* one turn of `while let Some((Some(res), _)) = rx.recv().await { .. }` on
\* the received value env: where the task goes and with which result
InviteOnRecv(env) ==
    IF env.kind # "res"
    THEN [to |-> "cleanup", r |-> BizError(1000, TimeoutMsg("invite_stream"))]
    ELSE IF env.res.code >= 300
    THEN [to |-> "cleanup", r |-> BizError(3000, StatusText(env.res.code))]
    ELSE IF env.res.code = 200 THEN InviteAccept(env.res)
    ELSE [to |-> "waiting", r |-> NoResult]

\* download_invite / play_back_invite / play_live_invite up to invite_stream
invite_call(p, id, ok) == build(p, "invite_stream", id, ok)

invite_stream_send(p, accepted) ==
    /\ pc[p] = "built"
    /\ cmd[p] \in InviteCmds
    /\ do_send(p, accepted)
    /\ UNCHANGED <<cmd, ident, chan, delivered, consumed, now, calledAt, nFulfill>>

invite_stream_recv(p) ==
    /\ pc[p] = "waiting"
    /\ cmd[p] \in InviteCmds
    /\ CanRecv(p)
    /\ LET env == RecvValue(p)
           step == InviteOnRecv(env)
       IN  /\ chan' = [chan EXCEPT ![p] = IF @ # <<>> THEN Tail(@) ELSE @]
           /\ consumed' = [consumed EXCEPT ![p] = Append(@, env)]
           /\ pc' = [pc EXCEPT ![p] = step.to]
           /\ outcome' = [outcome EXCEPT ![p] = step.r]
    /\ UNCHANGED <<cmd, ident, delivered, table, now, calledAt, sent, nFulfill>>

\* invite_stream returning without remove_event
invite_stream_remove_Skipped(p) ==
    /\ pc[p] = "cleanup"
    /\ cmd[p] \in InviteCmds
    /\ pc' = [pc EXCEPT ![p] = "done"]
    /\ UNCHANGED <<cmd, ident, chan, delivered, consumed, table, outcome, now, calledAt, sent, nFulfill>>

\* EventSession::remove_event(&ident); return ..  (lines 166, 189 and 193)
invite_stream_remove(p) ==
    /\ pc[p] = "cleanup"
    /\ cmd[p] \in InviteCmds
    /\ table' = remove_event(table, ident[p])
    /\ pc' = [pc EXCEPT ![p] = "done"]
    /\ UNCHANGED <<cmd, ident, chan, delivered, consumed, outcome, now, calledAt, sent, nFulfill>>

(***************************************************************************)
(* CmdStream::play_speed / play_seek / play_bye                            *)
(***************************************************************************)
\* BoundedOnRecv with the success test written `code <= 200`
BoundedOnRecv_UpTo200(c, env) ==
    IF env.kind = "res" /\ env.res.code <= 200
    THEN OkUnit
    ELSE BizError(1000, TimeoutMsg(c))

\* `if let Some((Some(res), _)) = rx.recv().await { if code == 200 .. }`
BoundedOnRecv(c, env) ==
    IF env.kind = "res" /\ env.res.code = 200
    THEN OkUnit
    ELSE BizError(1000, TimeoutMsg(c))

bounded_call(p, c, id, ok) ==
    /\ c \in BoundedCmds
    /\ build(p, c, id, ok)

\* bounded_send that calls remove_event before it returns the failed do_send
bounded_send_RemoveOnError(p, accepted) ==
    /\ pc[p] = "built"
    /\ cmd[p] \in BoundedCmds
    /\ IF Registered(ident[p])
       THEN /\ Return(p, SysError("conflict"))
            /\ table' = remove_event(table, ident[p])
            /\ sent' = sent
       ELSE do_send(p, accepted)
    /\ UNCHANGED <<cmd, ident, chan, delivered, consumed, now, calledAt, nFulfill>>

bounded_send(p, accepted) ==
    /\ pc[p] = "built"
    /\ cmd[p] \in BoundedCmds
    /\ do_send(p, accepted)
    /\ UNCHANGED <<cmd, ident, chan, delivered, consumed, now, calledAt, nFulfill>>

bounded_recv(p) ==
    /\ pc[p] = "waiting"
    /\ cmd[p] \in BoundedCmds
    /\ CanRecv(p)
    /\ LET env == RecvValue(p)
       IN  /\ chan' = [chan EXCEPT ![p] = IF @ # <<>> THEN Tail(@) ELSE @]
           /\ consumed' = [consumed EXCEPT ![p] = Append(@, env)]
           /\ Leave(p, BoundedOnRecv(cmd[p], env))
    /\ UNCHANGED <<cmd, ident, delivered, table, now, calledAt, sent, nFulfill>>

\* a bounded-wait command returning without remove_event
bounded_remove_Skipped(p) ==
    /\ pc[p] = "cleanup"
    /\ cmd[p] \in BoundedCmds
    /\ pc' = [pc EXCEPT ![p] = "done"]
    /\ UNCHANGED <<cmd, ident, chan, delivered, consumed, table, outcome, now, calledAt, sent, nFulfill>>

\* a bounded-wait command whose remove_event clears every registration
bounded_remove_All(p) ==
    /\ pc[p] = "cleanup"
    /\ cmd[p] \in BoundedCmds
    /\ table' = EmptyMap
    /\ pc' = [pc EXCEPT ![p] = "done"]
    /\ UNCHANGED <<cmd, ident, chan, delivered, consumed, outcome, now, calledAt, sent, nFulfill>>

\* EventSession::remove_event(&ident); return ..
bounded_remove(p) ==
    /\ pc[p] = "cleanup"
    /\ cmd[p] \in BoundedCmds
    /\ table' = remove_event(table, ident[p])
    /\ pc' = [pc EXCEPT ![p] = "done"]
    /\ UNCHANGED <<cmd, ident, chan, delivered, consumed, outcome, now, calledAt, sent, nFulfill>>

(***************************************************************************)
(* CmdQuery::query_preset / query_device_info / query_device_catalog /     *)
(* subscribe_device_catalog, CmdControl::control_ptz / snapshot_image      *)
(***************************************************************************)
\* forget_call that registers before it returns the Builder's failure
forget_call_RegistersFirst(p, c, id, ok) ==
    /\ c \in ForgetCmds
    /\ pc[p] = "idle"
    /\ cmd' = [cmd EXCEPT ![p] = c]
    /\ calledAt' = [calledAt EXCEPT ![p] = now]
    /\ ident' = [ident EXCEPT ![p] = id]
    /\ IF ok
       THEN /\ pc' = [pc EXCEPT ![p] = "built"]
            /\ UNCHANGED <<outcome, table>>
       ELSE /\ table' = listen_event(table, id, NoneWaiter(p))
            /\ Return(p, SysError("build"))
    /\ UNCHANGED <<chan, delivered, consumed, now, sent, nFulfill>>

forget_call(p, c, id, ok) ==
    /\ c \in ForgetCmds
    /\ build(p, c, id, ok)

forget_send(p, accepted) ==
    /\ pc[p] = "built"
    /\ cmd[p] \in ForgetCmds
    /\ do_send_none(p, accepted)
    /\ UNCHANGED <<cmd, ident, chan, delivered, consumed, now, calledAt, nFulfill>>

(***************************************************************************)
(* CmdStream::invite_ack                                                   *)
(***************************************************************************)
\* the acknowledgment RequestBuilder::build_ack_request_by_response builds:
\* its Call-ID header (if any) and its CSeq header (if any, with a sequence
\* number that parses or not)
Ack(has_call_id, has_cseq, seq_ok) ==
    [has_call_id |-> has_call_id, call_id |-> IF has_call_id THEN "c1" ELSE "",
     has_cseq |-> has_cseq, seq_ok |-> seq_ok, seq |-> IF has_cseq /\ seq_ok THEN 1 ELSE 0]

AckRequests == {Ack(a, b, c) : a \in BOOLEAN, b \in BOOLEAN, c \in BOOLEAN}

\* invite_ack with do_send_off moved before the two extractions
invite_ack_SendFirst(p, built, ack, send_ok) ==
    /\ pc[p] = "idle"
    /\ cmd' = [cmd EXCEPT ![p] = "invite_ack"]
    /\ calledAt' = [calledAt EXCEPT ![p] = now]
    /\ LET r == IF ~built THEN SysError("build")
                ELSE IF ~send_ok THEN SysError("transport")
                ELSE IF ~ack.has_call_id THEN SysError("call_id")
                ELSE IF ~ack.has_cseq THEN SysError("cseq")
                ELSE IF ~ack.seq_ok THEN SysError("seq")
                ELSE OkAck(ack.call_id, ack.seq)
       IN  /\ Return(p, r)
           /\ sent' = IF built /\ send_ok THEN [sent EXCEPT ![p] = Append(@, now)] ELSE sent
    /\ UNCHANGED <<ident, chan, delivered, consumed, table, now, nFulfill>>

\* build the acknowledgment, read its call id and sequence number, send it
\* without a waiter, return (call_id, seq); every `?` returns the error
invite_ack(p, built, ack, send_ok) ==
    /\ pc[p] = "idle"
    /\ cmd' = [cmd EXCEPT ![p] = "invite_ack"]
    /\ calledAt' = [calledAt EXCEPT ![p] = now]
    /\ LET r == IF ~built THEN SysError("build")
                ELSE IF ~ack.has_call_id THEN SysError("call_id")
                ELSE IF ~ack.has_cseq THEN SysError("cseq")
                ELSE IF ~ack.seq_ok THEN SysError("seq")
                ELSE IF ~send_ok THEN SysError("transport")
                ELSE OkAck(ack.call_id, ack.seq)
       IN  /\ Return(p, r)
           /\ sent' = IF r.tag = "Ok" THEN [sent EXCEPT ![p] = Append(@, now)] ELSE sent
    /\ UNCHANGED <<ident, chan, delivered, consumed, table, now, nFulfill>>

(***************************************************************************)
(* CmdQuery::lazy_query_device_info / lazy_query_device_catalog /          *)
(* lazy_subscribe_device_catalog                                           *)
(***************************************************************************)
lazy_call(p, c, id, ok) ==
    /\ c \in LazyCmds
    /\ build(p, c, id, ok)

\* lazy_schedule with `when = Instant::now()`: the delay left out
lazy_schedule_NoDelay(p) ==
    /\ pc[p] = "built"
    /\ cmd[p] \in LazyCmds
    /\ IF Registered(ident[p])
       THEN /\ Return(p, SysError("conflict"))
            /\ table' = table
       ELSE /\ table' = listen_event(table, ident[p], ActorWaiter(p, now))
            /\ Return(p, OkUnit)
    /\ UNCHANGED <<cmd, ident, chan, delivered, consumed, now, calledAt, sent, nFulfill>>

\* let when = Instant::now() + Duration::from_secs(2);
\* EventSession::listen_event(&ident, when, Container::build_actor(ident, msg, None))
lazy_schedule(p) ==
    /\ pc[p] = "built"
    /\ cmd[p] \in LazyCmds
    /\ LET when == now + LazyDelay
       IN  IF Registered(ident[p])
           THEN /\ Return(p, SysError("conflict"))
                /\ table' = table
           ELSE /\ table' = listen_event(table, ident[p], ActorWaiter(p, when))
                /\ Return(p, OkUnit)
    /\ UNCHANGED <<cmd, ident, chan, delivered, consumed, now, calledAt, sent, nFulfill>>

(***************************************************************************)
(* Environment: the timer of the Correlation Table, the transport's        *)
(* deliveries and the clock.                                               *)
(***************************************************************************)
\* the timer invokes a due deferred action and removes its registration
fire_event(id) ==
    /\ Registered(id)
    /\ table[id].kind = "actor"
    /\ now >= table[id].fire_at
    /\ sent' = [sent EXCEPT ![table[id].owner] = Append(@, now)]
    /\ table' = remove_event(table, id)
    /\ UNCHANGED <<pc, cmd, ident, chan, delivered, consumed, outcome, now, calledAt, nFulfill>>

\* fulfill(id, response): deliver through the waiter's channel when there is
\* one with room, drop the response otherwise
fulfill(id, r) ==
    /\ nFulfill < MaxFulfill
    /\ nFulfill' = nFulfill + 1
    /\ IF Registered(id) /\ table[id].kind = "res" /\ Len(chan[table[id].owner]) < ChannelCap
       THEN /\ chan' = [chan EXCEPT ![table[id].owner] = Append(@, SomeRes(r))]
            /\ delivered' = [delivered EXCEPT ![table[id].owner] = Append(@, SomeRes(r))]
       ELSE UNCHANGED <<chan, delivered>>
    /\ UNCHANGED <<pc, cmd, ident, consumed, table, outcome, now, calledAt, sent>>

\* the waiter's deadline passes: an absence envelope is delivered, once
timeout_absence(id) ==
    /\ Registered(id)
    /\ table[id].kind = "res"
    /\ ~table[id].expired
    /\ table' = [table EXCEPT ![id].expired = TRUE]
    /\ IF Len(chan[table[id].owner]) < ChannelCap
       THEN /\ chan' = [chan EXCEPT ![table[id].owner] = Append(@, Absence)]
            /\ delivered' = [delivered EXCEPT ![table[id].owner] = Append(@, Absence)]
       ELSE UNCHANGED <<chan, delivered>>
    /\ UNCHANGED <<pc, cmd, ident, consumed, outcome, now, calledAt, sent, nFulfill>>

\* the waiter's registration is dropped at its deadline: the channel closes
timeout_close(id) ==
    /\ Registered(id)
    /\ table[id].kind \in {"res", "none"}
    /\ table' = remove_event(table, id)
    /\ UNCHANGED <<pc, cmd, ident, chan, delivered, consumed, outcome, now, calledAt, sent, nFulfill>>

Tick ==
    /\ now < MaxTime
    /\ now' = now + 1
    /\ UNCHANGED <<pc, cmd, ident, chan, delivered, consumed, table, outcome, calledAt, sent, nFulfill>>

Next ==
    \/ \E p \in Procs : \E id \in IdsOf(p), ok \in BOOLEAN : invite_call(p, id, ok)
    \/ \E p \in Procs, accepted \in BOOLEAN : invite_stream_send(p, accepted)
    \/ \E p \in Procs : invite_stream_recv(p)
    \/ \E p \in Procs : invite_stream_remove(p)
    \/ \E p \in Procs : \E c \in BoundedCmds, id \in IdsOf(p), ok \in BOOLEAN : bounded_call(p, c, id, ok)
    \/ \E p \in Procs, accepted \in BOOLEAN : bounded_send(p, accepted)
    \/ \E p \in Procs : bounded_recv(p)
    \/ \E p \in Procs : bounded_remove(p)
    \/ \E p \in Procs : \E c \in LazyCmds, id \in IdsOf(p), ok \in BOOLEAN : lazy_call(p, c, id, ok)
    \/ \E p \in Procs : lazy_schedule(p)
    \/ \E p \in Procs : \E c \in ForgetCmds, id \in IdsOf(p), ok \in BOOLEAN : forget_call(p, c, id, ok)
    \/ \E p \in Procs, accepted \in BOOLEAN : forget_send(p, accepted)
    \/ \E p \in Procs, built \in BOOLEAN, ack \in AckRequests, send_ok \in BOOLEAN :
          invite_ack(p, built, ack, send_ok)
    \/ \E id \in Ids : fire_event(id)
    \/ \E id \in Ids, r \in Responses : fulfill(id, r)
    \/ \E id \in Ids : timeout_absence(id)
    \/ \E id \in Ids : timeout_close(id)
    \/ Tick

Spec == Init /\ [][Next]_vars

(***************************************************************************)
(* The same program restricted to one family of commands.                  *)
(***************************************************************************)
Timeouts ==
    \/ \E id \in Ids : timeout_absence(id)
    \/ \E id \in Ids : timeout_close(id)

NextInvite ==
    \/ \E p \in Procs : \E id \in IdsOf(p), ok \in BOOLEAN : invite_call(p, id, ok)
    \/ \E p \in Procs, accepted \in BOOLEAN : invite_stream_send(p, accepted)
    \/ \E p \in Procs : invite_stream_recv(p)
    \/ \E p \in Procs : invite_stream_remove(p)
    \/ \E id \in Ids, r \in Responses : fulfill(id, r)
    \/ Timeouts

SpecInvite == Init /\ [][NextInvite]_vars

NextBounded ==
    \/ \E p \in Procs : \E c \in BoundedCmds, id \in IdsOf(p), ok \in BOOLEAN : bounded_call(p, c, id, ok)
    \/ \E p \in Procs, accepted \in BOOLEAN : bounded_send(p, accepted)
    \/ \E p \in Procs : bounded_recv(p)
    \/ \E p \in Procs : bounded_remove(p)
    \/ \E id \in Ids, r \in StatusResponses : fulfill(id, r)
    \/ Timeouts

SpecBounded == Init /\ [][NextBounded]_vars

NextLazy ==
    \/ \E p \in Procs : \E c \in LazyCmds, id \in IdsOf(p), ok \in BOOLEAN : lazy_call(p, c, id, ok)
    \/ \E p \in Procs : lazy_schedule(p)
    \/ \E id \in Ids : fire_event(id)
    \/ Tick

SpecLazy == Init /\ [][NextLazy]_vars

\* one task negotiates a stream while the other issues an in-dialog command
InviteTask == "p1"
BoundedTask == "p2"

NextStream ==
    \/ \E id \in IdsOf(InviteTask), ok \in BOOLEAN : invite_call(InviteTask, id, ok)
    \/ \E accepted \in BOOLEAN : invite_stream_send(InviteTask, accepted)
    \/ invite_stream_recv(InviteTask)
    \/ invite_stream_remove(InviteTask)
    \/ \E c \in BoundedCmds, id \in IdsOf(BoundedTask), ok \in BOOLEAN : bounded_call(BoundedTask, c, id, ok)
    \/ \E accepted \in BOOLEAN : bounded_send(BoundedTask, accepted)
    \/ bounded_recv(BoundedTask)
    \/ bounded_remove(BoundedTask)
    \/ \E id \in Ids, r \in StatusResponses : fulfill(id, r)
    \/ Timeouts

SpecStream == Init /\ [][NextStream]_vars

\* one task negotiates a stream; the transport answers 200 with every session
\* description of ParseResponses; a 200 ends the exchange, so nothing is put
\* on the channel behind the first answer
NextParse ==
    \/ \E id \in IdsOf(InviteTask), ok \in BOOLEAN : invite_call(InviteTask, id, ok)
    \/ \E accepted \in BOOLEAN : invite_stream_send(InviteTask, accepted)
    \/ invite_stream_recv(InviteTask)
    \/ invite_stream_remove(InviteTask)
    \/ \E id \in IdsOf(InviteTask), r \in ParseResponses :
          delivered[InviteTask] = <<>> /\ fulfill(id, r)

SpecParse == Init /\ [][NextParse]_vars

\* one INVITE exchange with every response the transport can deliver; the
\* task is scheduled until it returns and the waiter's deadline passes
NextInviteLive ==
    \/ \E id \in IdsOf(InviteTask), ok \in BOOLEAN : invite_call(InviteTask, id, ok)
    \/ \E accepted \in BOOLEAN : invite_stream_send(InviteTask, accepted)
    \/ invite_stream_recv(InviteTask)
    \/ invite_stream_remove(InviteTask)
    \/ \E id \in IdsOf(InviteTask), r \in Responses : fulfill(id, r)
    \/ Timeouts

SpecInviteLive ==
    /\ Init /\ [][NextInviteLive]_vars
    /\ WF_vars(invite_stream_recv(InviteTask))
    /\ WF_vars(invite_stream_remove(InviteTask))
    /\ WF_vars(Timeouts)

\* every command up to its return, with a device that never answers and
\* before any deferred action is due
NextCommands ==
    \/ \E p \in Procs : \E id \in IdsOf(p), ok \in BOOLEAN : invite_call(p, id, ok)
    \/ \E p \in Procs, accepted \in BOOLEAN : invite_stream_send(p, accepted)
    \/ \E p \in Procs : invite_stream_recv(p)
    \/ \E p \in Procs : invite_stream_remove(p)
    \/ \E p \in Procs : \E c \in BoundedCmds, id \in IdsOf(p), ok \in BOOLEAN : bounded_call(p, c, id, ok)
    \/ \E p \in Procs, accepted \in BOOLEAN : bounded_send(p, accepted)
    \/ \E p \in Procs : bounded_recv(p)
    \/ \E p \in Procs : bounded_remove(p)
    \/ \E p \in Procs : \E c \in LazyCmds, id \in IdsOf(p), ok \in BOOLEAN : lazy_call(p, c, id, ok)
    \/ \E p \in Procs : lazy_schedule(p)
    \/ \E p \in Procs : \E c \in ForgetCmds, id \in IdsOf(p), ok \in BOOLEAN : forget_call(p, c, id, ok)
    \/ \E p \in Procs, accepted \in BOOLEAN : forget_send(p, accepted)
    \/ Timeouts

SpecCommands == Init /\ [][NextCommands]_vars

\* one task negotiates a stream while the other acknowledges an accepted response
AckTask == "p2"

NextAck ==
    \/ \E id \in IdsOf(InviteTask), ok \in BOOLEAN : invite_call(InviteTask, id, ok)
    \/ \E accepted \in BOOLEAN : invite_stream_send(InviteTask, accepted)
    \/ invite_stream_recv(InviteTask)
    \/ invite_stream_remove(InviteTask)
    \/ \E built \in BOOLEAN, ack \in AckRequests, send_ok \in BOOLEAN :
          invite_ack(AckTask, built, ack, send_ok)
    \/ \E id \in Ids, r \in StatusResponses : fulfill(id, r)
    \/ Timeouts

SpecAck == Init /\ [][NextAck]_vars

(***************************************************************************)
(* Properties.                                                             *)
(***************************************************************************)
Last(s) == s[Len(s)]

\* the table holds a synchronous waiter registered by task p
OwnsWaiter(p) == \E id \in DOMAIN table : table[id].kind = "res" /\ table[id].owner = p

IsInvite(p) == cmd[p] \in InviteCmds
IsBounded(p) == cmd[p] \in BoundedCmds

\* task p returns to its caller in this step
Returns(p) == pc[p] # "done" /\ pc'[p] = "done"

\* the task has left its receive loop
Decided(p) == pc[p] \in {"cleanup", "done"} /\ consumed[p] # <<>>

\* a result by success, by explicit rejection or by timeout / closure
Completed(r) == r.tag = "Ok" \/ (r.tag = "Err" /\ r.class = "biz")

\* a received value that ends the INVITE wait: a 200, a status >= 300, an
\* absence envelope or the closure of the channel
Ends(env) == env.kind # "res" \/ env.res.code = 200 \/ env.res.code >= 300

\* position of the first value of seq that ends the INVITE wait, 0 if none
FirstEnd(seq) ==
    LET at == {i \in 1..Len(seq) : Ends(seq[i])}
    IN  IF at = {} THEN 0 ELSE CHOOSE i \in at : \A j \in at : i <= j

\* the values received from the channel proper (without the closure marker)
Received(p) == SelectSeq(consumed[p], LAMBDA e : e.kind # "closed")

\* C1: when an exchange that waits for a response (invite_stream, play_speed,
\* play_seek, play_bye) returns by success, by explicit rejection or by
\* timeout / channel closure, the Correlation Table holds no waiter for its
\* Dialog Identifier at that moment, and never holds the exchange's own
\* waiter afterwards.
C1_NoWaiterAfterExchange ==
    [][\A p \in Procs :
         /\ (Returns(p) /\ (IsInvite(p) \/ IsBounded(p)) /\ Completed(outcome'[p]))
               => ident[p] \notin DOMAIN table'
         /\ (pc'[p] = "done" /\ Completed(outcome'[p])) => ~(OwnsWaiter(p))']_vars

C1_Witness ==
    /\ pc[InviteTask] = "done" /\ outcome[InviteTask].class = "session"
    /\ pc[BoundedTask] = "done" /\ outcome[BoundedTask].code = 1000
    /\ ident[InviteTask] = ident[BoundedTask]

\* C2: every failure an exchange returns after its request was handed over
\* (a rejection, a timeout, a 200 whose session description has a malformed
\* payload type or a missing tag) is returned with the Dialog Identifier
\* already deregistered.
C2_FailureDeregisters ==
    [][\A p \in Procs :
         (pc[p] \in {"waiting", "cleanup"} /\ pc'[p] = "done" /\ outcome'[p].tag = "Err")
            => ident[p] \notin DOMAIN table']_vars

\* C3: an INVITE exchange consumes the values in the order they were put on
\* its channel; provisional responses leave it waiting; and the first value in
\* delivery order that ends the wait decides the result alone: a 183 followed
\* by a 200 gives one session descriptor, built from the 200.
C3_FirstTerminalDecides ==
    \A p \in Procs : IsInvite(p) =>
        LET k == FirstEnd(delivered[p])
        IN  /\ Received(p) \o chan[p] = delivered[p]
            /\ pc[p] = "waiting" => \A i \in 1..Len(consumed[p]) : ~Ends(consumed[p][i])
            /\ Decided(p) =>
                 /\ Len(Received(p)) = IF k = 0 THEN Len(delivered[p]) ELSE k
                 /\ k = 0 => Last(consumed[p]) = Closed
                 /\ k # 0 => Last(consumed[p]) = delivered[p][k]
            /\ outcome[p].class = "session" =>
                 /\ k # 0 /\ delivered[p][k].kind = "res" /\ delivered[p][k].res.code = 200
                 /\ outcome[p].res = delivered[p][k].res
                 /\ outcome[p].media_map = SessionMap[delivered[p][k].res].map
                 /\ outcome[p].from_tag = delivered[p][k].res.from_tag
                 /\ outcome[p].to_tag = delivered[p][k].res.to_tag
            /\ (Decided(p) /\ k # 0 /\ delivered[p][k] = SomeRes(Resp(200, GoodBody, "ft", "tt")))
                 => outcome[p].class = "session"

C3_Witness ==
    \E p \in Procs :
        /\ pc[p] = "done"
        /\ consumed[p] = <<SomeRes(Resp(183, EmptyBody, "ft", NoTag)),
                           SomeRes(Resp(200, GoodBody, "ft", "tt"))>>
        /\ outcome[p].class = "session"

\* C4: in an INVITE exchange a response with status >= 300 ends the exchange
\* in Rejected: the result is the protocol-rejection failure (3000) whose
\* message is the status text of that response (it starts with the code, e.g.
\* "486"), it carries no session descriptor, and the exchange's waiter is
\* gone when it returns.
C4_RejectionEnds ==
    \A p \in Procs :
        (IsInvite(p) /\ consumed[p] # <<>> /\ Last(consumed[p]).kind = "res"
                     /\ Last(consumed[p]).res.code >= 300) =>
            LET code == Last(consumed[p]).res.code
            IN  /\ pc[p] \in {"cleanup", "done"}
                /\ outcome[p].tag = "Err" /\ outcome[p].class = "biz" /\ outcome[p].code = 3000
                /\ outcome[p].msg = StatusText(code)
                /\ outcome[p].msg[1] = ToString(code)
                /\ code = 486 => outcome[p].msg[1] = "486"
                /\ outcome[p].res = NoRes /\ outcome[p].media_map = EmptyMap
                /\ pc[p] = "done" => ~OwnsWaiter(p)

C4_Witness ==
    \E p \in Procs :
        /\ pc[p] = "done" /\ IsInvite(p)
        /\ consumed[p] # <<>>
        /\ Last(consumed[p]) = SomeRes(Resp(486, EmptyBody, "ft", "tt"))
        /\ outcome[p].code = 3000

\* C5: in an INVITE exchange, when the channel closes or an absence envelope
\* arrives before any terminal response (also after provisional responses),
\* the exchange ends in TimedOut: the result is the no-response / timeout
\* failure (1000), which is not the protocol-rejection failure (3000), and
\* the exchange's waiter is gone when it returns.
C5_NoResponseTimesOut ==
    \A p \in Procs :
        (IsInvite(p) /\ consumed[p] # <<>> /\ Last(consumed[p]).kind \in {"absence", "closed"}) =>
            /\ pc[p] \in {"cleanup", "done"}
            /\ outcome[p] = BizError(1000, TimeoutMsg("invite_stream"))
            /\ \A r \in Responses : outcome[p] # BizError(3000, StatusText(r.code))
            /\ pc[p] = "done" => ~OwnsWaiter(p)

C5_Witness ==
    \E p \in Procs :
        /\ pc[p] = "done" /\ IsInvite(p)
        /\ Len(consumed[p]) = 2
        /\ consumed[p][1] = SomeRes(Resp(183, EmptyBody, "ft", NoTag))
        /\ consumed[p][2] = Absence
        /\ outcome[p].code = 1000

\* C6: once an INVITE exchange has received its terminal response and
\* returned, a terminal response delivered for its identifier finds no waiter:
\* it is not put on the exchange's channel, and the result already returned
\* and the Correlation Table stay as they were.
C6_LateDeliveryDropped ==
    [][\A p \in Procs :
         (/\ IsInvite(p) /\ pc[p] = "done" /\ outcome[p].tag \in {"Ok", "Err"}
          /\ consumed[p] # <<>> /\ Last(consumed[p]).kind = "res"
          /\ nFulfill' # nFulfill)
            => /\ ~(/\ Len(delivered'[p]) > Len(delivered[p])
                    /\ Last(delivered'[p]).kind = "res"
                    /\ Last(delivered'[p]).res.code >= 200)
               /\ outcome'[p] = outcome[p]
               /\ table' = table]_vars

\* C7 (as claimed): a bounded-wait command ends its wait with success if and
\* only if a response with status exactly 200 has been delivered for its
\* identifier before the wait ends.
C7_SuccessIffOkDelivered ==
    [][\A p \in Procs :
         (IsBounded(p) /\ pc[p] = "waiting" /\ pc'[p] = "cleanup")
            => (outcome'[p] = OkUnit
                  <=> \E i \in 1..Len(delivered[p]) :
                         delivered[p][i].kind = "res" /\ delivered[p][i].res.code = 200)]_vars

\* C7 (amended): a bounded-wait command receives exactly once, the first
\* value put on its channel (or the closure of the empty channel); it returns
\* success if and only if that first value is a response with status exactly
\* 200, and a failure for every other first value, whatever follows it.
C7_SuccessIffFirstIsOk ==
    \A p \in Procs : IsBounded(p) =>
        /\ pc[p] = "waiting" => consumed[p] = <<>>
        /\ Decided(p) =>
             /\ Len(consumed[p]) = 1
             /\ delivered[p] # <<>> => consumed[p][1] = delivered[p][1]
             /\ delivered[p] = <<>> => consumed[p][1] = Closed
             /\ outcome[p] = OkUnit
                  <=> (consumed[p][1].kind = "res" /\ consumed[p][1].res.code = 200)
             /\ outcome[p] # OkUnit => outcome[p].tag = "Err"

C7_Witness ==
    \E p \in Procs :
        /\ IsBounded(p) /\ pc[p] = "done"
        /\ delivered[p] = <<SomeRes(Resp(183, EmptyBody, "ft", NoTag)),
                            SomeRes(Resp(200, EmptyBody, "ft", "tt"))>>
        /\ outcome[p].tag = "Err"

\* C8: a bounded-wait exchange whose receive yields no response (an absence
\* envelope or the closure of the channel) fails with the unresponsive /
\* timeout failure of its command, and its waiter is gone when it returns.
C8_BoundedNoResponse ==
    \A p \in Procs :
        (IsBounded(p) /\ consumed[p] # <<>> /\ consumed[p][1].kind \in {"absence", "closed"}) =>
            /\ pc[p] \in {"cleanup", "done"}
            /\ outcome[p] = BizError(1000, TimeoutMsg(cmd[p]))
            /\ pc[p] = "done" => ~OwnsWaiter(p)

C8_Witness ==
    \E p \in Procs :
        /\ cmd[p] = "play_speed" /\ pc[p] = "done"
        /\ consumed[p] = <<Absence>>
        /\ outcome[p] = BizError(1000, TimeoutMsg("play_speed"))
        /\ ident[p] \notin DOMAIN table

\* C9: for every command that waits for a response, the failure returned on
\* an explicit non-success status differs from the failure returned when no
\* response arrives, and carries the status text of the rejecting response.
C9_RejectionDistinguishable ==
    \A p \in Procs :
        (/\ IsInvite(p) \/ IsBounded(p)
         /\ Decided(p) /\ Last(consumed[p]).kind = "res"
         /\ Last(consumed[p]).res.code >= 300) =>
            /\ outcome[p] # BizError(1000, TimeoutMsg(cmd[p]))
            /\ outcome[p].msg = StatusText(Last(consumed[p]).res.code)

\* C10: a lazy-scheduled query called at time T hands nothing to the
\* transport before it has returned, its request is never handed over before
\* T + 2, and it is handed over at most once.
C10_LazyNotBeforeDelay ==
    \A p \in Procs : cmd[p] \in LazyCmds =>
        /\ pc[p] # "done" => sent[p] = <<>>
        /\ outcome[p] # OkUnit => sent[p] = <<>>
        /\ Len(sent[p]) <= 1
        /\ \A i \in 1..Len(sent[p]) : sent[p][i] >= calledAt[p] + LazyDelay

C10_Witness ==
    \E p \in Procs :
        /\ cmd[p] = "lazy_query_device_info" /\ pc[p] = "done"
        /\ calledAt[p] = 1
        /\ sent[p] = <<3>>

\* C11: the Correlation Table holds at most one Pending Waiter per Dialog
\* Identifier; an exchange that tries to register a waiter for an identifier
\* that already holds one returns the registration-conflict error, and that
\* step leaves the table, every channel and every other task as they were; a
\* response the transport then injects for the identifier is put on the
\* channel of the waiter that was registered first.
C11_ConflictKeepsFirst ==
    [][/\ \A id \in Ids : Cardinality({p \in Procs : Registered(id) /\ table[id].owner = p}) <= 1
       /\ \A p \in Procs :
            (/\ pc[p] = "built" /\ (IsInvite(p) \/ IsBounded(p))
             /\ Registered(ident[p]) /\ pc'[p] # "built")
               => /\ pc'[p] = "done" /\ outcome'[p] = SysError("conflict")
                  /\ table' = table /\ chan' = chan /\ delivered' = delivered
                  /\ sent' = sent
                  /\ \A q \in Procs \ {p} : pc'[q] = pc[q] /\ outcome'[q] = outcome[q]
       /\ \A id \in Ids, r \in StatusResponses, p \in Procs :
            (/\ fulfill(id, r)
             /\ pc[p] = "done" /\ outcome[p] = SysError("conflict") /\ ident[p] = id
             /\ Registered(id) /\ table[id].kind = "res" /\ pc[table[id].owner] = "waiting")
               => /\ table[id].owner # p
                  /\ chan'[table[id].owner] = Append(chan[table[id].owner], SomeRes(r))
                  /\ table'[id] = table[id]]_vars

C11_Witness ==
    /\ pc[BoundedTask] = "done" /\ outcome[BoundedTask] = SysError("conflict")
    /\ ident[BoundedTask] = ident[InviteTask]
    /\ pc[InviteTask] = "done" /\ outcome[InviteTask].class = "session"
    /\ Registered(ident[BoundedTask]) = FALSE

\* the entry each well-formed payload-mapping value stands for, written out
Entry(pt, codec) == [pt |-> pt, codec |-> codec]

WellFormedValues == {Rtpmap96, Rtpmap97, Rtpmap97Upper, RtpmapBlank, Rtpmap96Again}

ExpectedEntry(v) ==
    CASE v = Rtpmap96 -> Entry(96, <<"P", "S">>)
      [] v = Rtpmap97 -> Entry(97, <<"H", "2", "6", "4">>)
      [] v = Rtpmap97Upper -> Entry(97, <<"H", "2", "6", "4">>)
      [] v = RtpmapBlank -> Entry(96, <<"P", "S">>)
      [] v = Rtpmap96Again -> Entry(96, <<"H", "2", "6", "4">>)

\* the payload-mapping attributes of a response that carry a value
RtpmapAt(res) ==
    LET attrs == Flatten(res.body.medias)
    IN  {i \in 1..Len(attrs) : attrs[i].attribute = "rtpmap" /\ attrs[i].has_value}

\* C12: the payload-type map of an accepted response has one entry per
\* payload type named by its rtpmap attributes: the value is trimmed and its
\* whitespace runs collapsed, the first token is the payload type, the codec
\* is the rest up to the first '/', upper-cased; the last attribute of a
\* payload type wins and other attributes add nothing.  "96 PS/90000" and
\* "97 H264/90000" give {96: "PS", 97: "H264"}; " 96   PS/90000 " gives
\* 96 -> "PS".
C12_RtpmapEntries ==
    \A p \in Procs :
        LET res == outcome[p].res
            attrs == Flatten(res.body.medias)
            at == {i \in RtpmapAt(res) : attrs[i].value \in WellFormedValues}
            e(i) == ExpectedEntry(attrs[i].value)
            m == outcome[p].media_map
        IN  /\ outcome[p].class = "session" =>
                 /\ DOMAIN m = {e(i).pt : i \in at}
                 /\ \A i \in at : (\A j \in at : j > i => e(j).pt # e(i).pt) => m[e(i).pt] = e(i).codec
                 /\ attrs = <<Attr("rtpmap", Rtpmap96), Attr("rtpmap", Rtpmap97Upper)>>
                      => m = (96 :> <<"P", "S">> @@ 97 :> <<"H", "2", "6", "4">>)
                 /\ attrs = <<Attr("rtpmap", RtpmapBlank)>> => m = (96 :> <<"P", "S">>)
            /\ (/\ IsInvite(p) /\ Decided(p) /\ Last(consumed[p]).kind = "res"
                 /\ Last(consumed[p]).res.code = 200 /\ Last(consumed[p]).res.body.sdp_ok
                 /\ Last(consumed[p]).res.from_tag # NoTag /\ Last(consumed[p]).res.to_tag # NoTag
                 /\ LET r == Last(consumed[p]).res
                    IN  \A i \in RtpmapAt(r) : Flatten(r.body.medias)[i].value \in WellFormedValues)
                  => outcome[p].class = "session"

C12_Witness ==
    /\ pc[InviteTask] = "done"
    /\ outcome[InviteTask].class = "session"
    /\ Flatten(outcome[InviteTask].res.body.medias)
          = <<Attr("rtpmap", RtpmapBlank), Attr("rtpmap", Rtpmap96Again)>>
    /\ outcome[InviteTask].media_map = (96 :> <<"H", "2", "6", "4">>)

\* the payload-mapping values whose payload-type field is no payload-type number
MalformedValues == {RtpmapBad, RtpmapNoCodec}

\* C13: an INVITE exchange that receives a 200 whose session description has
\* a payload-mapping attribute with a payload-type field that is no number,
\* or whose From or To tag is missing, ends with a validation failure and
\* without a session descriptor.
C13_MalformedFails ==
    \A p \in Procs :
        (/\ IsInvite(p) /\ Decided(p) /\ Last(consumed[p]).kind = "res"
         /\ Last(consumed[p]).res.code = 200 /\ Last(consumed[p]).res.body.sdp_ok
         /\ LET r == Last(consumed[p]).res
            IN  \/ \E i \in RtpmapAt(r) : Flatten(r.body.medias)[i].value \in MalformedValues
                \/ r.from_tag = NoTag \/ r.to_tag = NoTag)
          => /\ outcome[p].tag = "Err" /\ outcome[p].class \in {"parse", "tag"}
             /\ outcome[p].res = NoRes /\ outcome[p].media_map = EmptyMap

\* the result of an exchange that ended in Accepted, Rejected or TimedOut
Accepted(r) == r.tag = "Ok" /\ r.class = "session"
Rejected(r) == r.tag = "Err" /\ r.class = "biz" /\ r.code = 3000
TimedOut(r) == r.tag = "Err" /\ r.class = "biz" /\ r.code = 1000

\* C14: an INVITE exchange whose request was handed to the transport
\* eventually returns to its caller with a result that is Accepted, Rejected
\* or TimedOut, whatever is delivered, given that the task is scheduled and
\* the waiter's deadline eventually passes.
C14_InviteEnds ==
    (pc[InviteTask] = "waiting")
        ~> (/\ pc[InviteTask] = "done"
            /\ \/ Accepted(outcome[InviteTask])
               \/ Rejected(outcome[InviteTask])
               \/ TimedOut(outcome[InviteTask]))

\* the same exchange stops waiting in every case: it returns a result or panics
C14_InviteStops == (pc[InviteTask] = "waiting") ~> (pc[InviteTask] = "done")

\* task p takes a step of its exchange
Steps(p) == pc'[p] # pc[p] \/ consumed'[p] # consumed[p]

\* C15: a step of one exchange (build, register, receive, deregister, return)
\* leaves the waiter, the channel and the task of every exchange on another
\* Dialog Identifier as they were; a response injected for an identifier is
\* put on no channel of another identifier; and the result of an exchange is
\* fixed by the values received on its own channel.
C15_OtherIdentifierUntouched ==
    [][/\ \A p \in Procs, q \in Procs :
            (p # q /\ Steps(p) /\ ident[q] # NoId /\ ident'[p] # ident[q])
               => /\ pc'[q] = pc[q] /\ outcome'[q] = outcome[q]
                  /\ chan'[q] = chan[q] /\ delivered'[q] = delivered[q]
                  /\ consumed'[q] = consumed[q]
                  /\ Registered(ident[q])' = Registered(ident[q])
                  /\ Registered(ident[q]) => table'[ident[q]] = table[ident[q]]
       /\ \A id \in Ids, r \in StatusResponses, q \in Procs :
            (fulfill(id, r) /\ ident[q] # id) => chan'[q] = chan[q]
       /\ \A p \in Procs :
            /\ (IsInvite(p) /\ Decided(p)) => outcome[p] = InviteOnRecv(Last(consumed[p])).r
            /\ (IsBounded(p) /\ Decided(p)) => outcome[p] = BoundedOnRecv(cmd[p], consumed[p][1])]_vars

C15_Witness ==
    /\ ident[InviteTask] = "d1" /\ ident[BoundedTask] = "d2"
    /\ pc[InviteTask] = "done" /\ outcome[InviteTask].class = "session"
    /\ pc[BoundedTask] = "done" /\ outcome[BoundedTask] = OkUnit

\* C16: invite_ack registers no waiter and receives nothing; it returns at
\* once; when the call id or the sequence number cannot be read from the
\* built acknowledgment it returns the error and nothing has been handed to
\* the transport; when it returns (call_id, seq) the acknowledgment has been
\* handed over exactly once.
C16_AckWithoutWaiter ==
    [][\A p \in Procs :
         /\ (cmd'[p] = "invite_ack" /\ cmd[p] # "invite_ack")
               => table' = table /\ chan' = chan /\ delivered' = delivered
         /\ cmd'[p] = "invite_ack"
               => /\ pc'[p] = "done"
                  /\ ~(OwnsWaiter(p))' /\ chan'[p] = <<>> /\ consumed'[p] = <<>>
                  /\ outcome'[p].tag \in {"Ok", "Err"}
                  /\ outcome'[p].class \in {"call_id", "cseq", "seq"} => sent'[p] = <<>>
                  /\ outcome'[p].tag = "Err" => sent'[p] = <<>>
                  /\ outcome'[p].tag = "Ok"
                       => outcome'[p] = OkAck("c1", 1) /\ Len(sent'[p]) = 1]_vars

C16_Witness ==
    /\ cmd[AckTask] = "invite_ack" /\ pc[AckTask] = "done"
    /\ outcome[AckTask] = OkAck("c1", 1)
    /\ Len(sent[AckTask]) = 1
    /\ pc[InviteTask] = "waiting" /\ OwnsWaiter(InviteTask)

\* C17: when the Builder fails, a fire-and-forget, lazy-scheduled,
\* bounded-wait or INVITE command returns the Builder's failure at once and
\* the step leaves the Correlation Table, every channel and the record of
\* what was handed to the transport unchanged; the command never holds a
\* registration and never sends.
C17_BuildFailureLeavesNoTrace ==
    [][\A p \in Procs :
         /\ (pc[p] = "idle" /\ outcome'[p] = SysError("build"))
               => /\ pc'[p] = "done"
                  /\ cmd'[p] \in ForgetCmds \cup LazyCmds \cup BoundedCmds \cup InviteCmds
                  /\ table' = table /\ sent' = sent
                  /\ chan' = chan /\ delivered' = delivered
         /\ outcome'[p] = SysError("build")
               => /\ sent'[p] = <<>>
                  /\ \A id \in DOMAIN table' : table'[id].owner # p]_vars

C17_Witness ==
    /\ cmd["p1"] \in ForgetCmds /\ outcome["p1"] = SysError("build")
    /\ cmd["p2"] \in BoundedCmds /\ pc["p2"] = "waiting"
    /\ DOMAIN table = {ident["p2"]}

\* a response with a status in 201..299
Other2xx(env) == env.kind = "res" /\ env.res.code > 200 /\ env.res.code < 300

\* C18: an INVITE exchange that receives a response with a status in
\* 201..299 stays waiting, with no result, and the step leaves the
\* Correlation Table as it was; an exchange that has received nothing but
\* such responses when its wait ends returns the timeout failure (1000) and
\* no session descriptor.
C18_Other2xxKeepsWaiting ==
    [][\A p \in Procs : IsInvite(p) =>
         /\ (Len(consumed'[p]) > Len(consumed[p]) /\ Other2xx(Last(consumed'[p])))
               => /\ pc'[p] = "waiting" /\ outcome'[p] = NoResult
                  /\ table' = table
         /\ (/\ Decided(p)'
             /\ \A i \in 1..Len(consumed'[p]) :
                   consumed'[p][i].kind = "res" => Other2xx(consumed'[p][i]))
               => /\ TimedOut(outcome'[p])
                  /\ outcome'[p].res = NoRes /\ outcome'[p].media_map = EmptyMap]_vars

C18_Witness ==
    \E p \in Procs :
        /\ IsInvite(p) /\ pc[p] = "done"
        /\ Len(consumed[p]) = 2
        /\ consumed[p][1] = SomeRes(Resp(204, EmptyBody, "ft", "tt"))
        /\ consumed[p][2].kind \in {"absence", "closed"}
        /\ outcome[p] = BizError(1000, TimeoutMsg("invite_stream"))
        /\ ident[p] \notin DOMAIN table

\* C19: the remove_event an exchange executes on its way out removes no
\* waiter of another exchange: every other task that is waiting on a waiter
\* it registered still has that waiter, with its channel open, after the step.
C19_RemoveSparesOthers ==
    [][\A p \in Procs, q \in Procs :
         (p # q /\ pc[p] = "cleanup" /\ pc'[p] = "done" /\ pc[q] = "waiting" /\ OwnsWaiter(q))
            => (OwnsWaiter(q) /\ ~ChannelClosed(q))']_vars

====
